---------------------------- MODULE Spec2Model ----------------------------
(***************************************************************************)
(* Visual occupancy scoring engine (backend/cv/train/visual_occupancy.py). *)
(*                                                                         *)
(* The module models analyze_fill_level, categorize_score and the CLI      *)
(* main.  Images are drawn from the family of horizontally striped images: *)
(* every row is of one colour.  On such an image every step of the code    *)
(* that works on pixels acts on whole rows, so a mask is a set of row      *)
(* intervals and the 5x5 morphology is a vertical window of 5 rows.        *)
(* Python floats are modelled as exact rationals <<n, d>>.                 *)
(***************************************************************************)
EXTENDS Integers, Sequences, FiniteSets, TLC

VARIABLES
    args,       \* parsed command line: [image |-> path, debug |-> BOOLEAN]
    disk,       \* the file system: [exists, image (None when the file is no image), dir_writable]
    hough,      \* what cv2.HoughLinesP returns for the image: None or a list of segments
    pc,         \* position of the CLI process: "main", "call", "returned", "raised", "exit"
    frame,      \* the locals of analyze_fill_level once the signals are computed, else None
    result,     \* the record analyze_fill_level returned, else None
    exc,        \* the exception analyze_fill_level raised, else None
    written,    \* the debug files written so far
    stdout,     \* what main printed on stdout, else None
    stderr,     \* what main printed on stderr, else None
    exit_code,  \* the exit status of the process, None while it runs
    fin,        \* the arguments of the function under test (function specifications)
    fout        \* its result, None before it is applied

vars == <<args, disk, hough, pc, frame, result, exc, written, stdout, stderr, exit_code, fin, fout>>

\* Python's None, and a value that is not None: an optional value is a sequence
\* of at most one element
None == <<>>
Some(x) == <<x>>

---------------------------------------------------------------------------
(* Bounds of the model *)

\* the most stripes an image is made of
MaxStripes == 3
\* the most segments HoughLinesP returns
MaxSegs == 1

\* the heights of a stripe, in rows: thinner than the kernel, and thick
StripeRows == {4, 252}
\* the scores categorize_score is tried on run from -1 to MaxScore
MaxScore == 11
\* the widths of an image, in pixels: too narrow and wide enough for a Hough line
Widths == {1, 120}
\* the most product pixels a band holds when the vertical score is tried on its own
MaxBand == 11
\* the snack percentages the snack bonus is tried on run from 0 to MaxPercent
MaxPercent == 100
\* the tallest image the fill-line score is tried on, in rows
MaxHeight == 20
\* the most segments in the list the fill-line row is computed from, on its own
MaxLines == 3
\* the most stripes of an image the product mask is computed on, on its own
MaxMorphStripes == 6

---------------------------------------------------------------------------
(* Exact arithmetic on rationals <<n, d>>, d > 0, in lowest terms *)

Max(a, b) == IF a >= b THEN a ELSE b
Min(a, b) == IF a <= b THEN a ELSE b
Abs(a) == IF a < 0 THEN -a ELSE a

RECURSIVE Gcd(_, _)
Gcd(a, b) == IF b = 0 THEN a ELSE Gcd(b, a % b)

\* n / d
Q(n, d) ==
    LET g == Gcd(Abs(n), d)
    IN  IF n = 0 THEN <<0, 1>> ELSE <<n \div g, d \div g>>

QInt(n) == <<n, 1>>
QAdd(a, b) ==
    LET g == Gcd(a[2], b[2])
    IN  Q(a[1] * (b[2] \div g) + b[1] * (a[2] \div g), (a[2] \div g) * b[2])
QSub(a, b) == QAdd(a, <<-b[1], b[2]>>)
QMul(a, b) ==
    LET g1 == Gcd(Abs(a[1]), b[2])
        g2 == Gcd(Abs(b[1]), a[2])
    IN  IF a[1] = 0 \/ b[1] = 0 THEN <<0, 1>>
        ELSE <<(a[1] \div g1) * (b[1] \div g2), (a[2] \div g2) * (b[2] \div g1)>>
QDiv(a, b) == QMul(a, <<b[2], b[1]>>)
QLt(a, b) == a[1] * b[2] < b[1] * a[2]
QLe(a, b) == a[1] * b[2] <= b[1] * a[2]
QMin(a, b) == IF QLe(a, b) THEN a ELSE b
QMax(a, b) == IF QLe(b, a) THEN a ELSE b

\* floor of a rational
QFloor(a) == a[1] \div a[2]

\* round(x, 2): the nearest multiple of 1/100, a tie going to the even one
Round2(x) ==
    LET s == QMul(x, QInt(100))
        f == QFloor(s)
        twice == 2 * (s[1] - f * s[2])
    IN  IF twice < s[2] THEN Q(f, 100)
        ELSE IF twice > s[2] THEN Q(f + 1, 100)
        ELSE IF f % 2 = 0 THEN Q(f, 100) ELSE Q(f + 1, 100)

---------------------------------------------------------------------------
(* Images and masks *)

\* the colours of a stripe, as BGR pixels; black is the unset pixel of a mask
\* written out as an image
Pixel ==
    [white |-> <<255, 255, 255>>, grey |-> <<128, 128, 128>>, red |-> <<0, 0, 255>>,
     black |-> <<0, 0, 0>>]
\* the colours a stripe of a photographed tray is painted in
Kinds == DOMAIN Pixel \ {"black"}

\* cv2.cvtColor(img, cv2.COLOR_BGR2HSV) on one 8-bit pixel: <<H, S, V>>, H in 0..179
BGR2HSV(p) ==
    LET b == p[1]
        g == p[2]
        r == p[3]
        v == Max(r, Max(g, b))
        m == Min(r, Min(g, b))
        s == IF v = 0 THEN 0 ELSE (2 * 255 * (v - m) + v) \div (2 * v)
        deg == IF v = m THEN 0
               ELSE IF v = r THEN (60 * (g - b)) \div (v - m)
               ELSE IF v = g THEN 120 + (60 * (b - r)) \div (v - m)
               ELSE 240 + (60 * (r - g)) \div (v - m)
        h == (IF deg < 0 THEN deg + 360 ELSE deg) \div 2
    IN  <<h, s, v>>

\* cv2.inRange on one pixel
InRange(px, lower, upper) == \A c \in 1..3 : lower[c] <= px[c] /\ px[c] <= upper[c]

\* the first row of stripe k of an image (rows count from 0)
RECURSIVE StripeTop(_, _)
StripeTop(stripes, k) == IF k = 1 THEN 0 ELSE StripeTop(stripes, k - 1) + stripes[k - 1].rows

Height(stripes) == StripeTop(stripes, Len(stripes) + 1)

\* cv2.inRange on the image: the row intervals whose pixels are in range
InRangeMask(img, lower, upper) ==
    {<<StripeTop(img.stripes, k), StripeTop(img.stripes, k + 1) - 1>> :
        k \in {j \in 1..Len(img.stripes) :
                  InRange(BGR2HSV(Pixel[img.stripes[j].kind]), lower, upper)}}

Covered(M, r) == \E i \in M : i[1] <= r /\ r <= i[2]

\* the maximal intervals of a mask
Normalize(M) ==
    {i \in {j[1] : j \in M} \X {j[2] : j \in M} :
        /\ i[1] <= i[2]
        /\ ~Covered(M, i[1] - 1)
        /\ ~Covered(M, i[2] + 1)
        /\ \A j \in M : (i[1] <= j[2] /\ j[2] < i[2]) => Covered(M, j[2] + 1)}

\* cv2.bitwise_not
BitwiseNot(M, height) ==
    {i \in ({0} \cup {j[2] + 1 : j \in M}) \X ({height - 1} \cup {j[1] - 1 : j \in M}) :
        /\ 0 <= i[1] /\ i[1] <= i[2] /\ i[2] <= height - 1
        /\ \A j \in M : j[2] < i[1] \/ i[2] < j[1]
        /\ (i[1] = 0 \/ Covered(M, i[1] - 1))
        /\ (i[2] = height - 1 \/ Covered(M, i[2] + 1))}

\* cv2.bitwise_and
BitwiseAnd(M1, M2) ==
    {i \in {<<Max(a[1], b[1]), Min(a[2], b[2])>> : a \in M1, b \in M2} : i[1] <= i[2]}

\* cv2.getStructuringElement(cv2.MORPH_RECT, (5, 5)): the side of the square
KernelSize == 5

\* cv2.dilate: a row is set when a row of the window around it is set; rows
\* outside the image do not count
Dilate(M, height) ==
    Normalize({<<Max(0, i[1] - KernelSize \div 2), Min(height - 1, i[2] + KernelSize \div 2)>> : i \in M})

\* cv2.erode: a row stays set when every row of the window inside the image is set
Erode(M, height) == BitwiseNot(Dilate(BitwiseNot(M, height), height), height)

\* cv2.morphologyEx(mask, cv2.MORPH_CLOSE, kernel)
MorphClose(M, height) == Erode(Dilate(M, height), height)
\* cv2.morphologyEx(mask, cv2.MORPH_OPEN, kernel)
MorphOpen(M, height) == Dilate(Erode(M, height), height)

\* the rows of lo..hi-1 that lie in the disjoint intervals N
RECURSIVE RowsIn(_, _, _)
RowsIn(N, lo, hi) ==
    IF N = {} THEN 0
    ELSE LET i == CHOOSE j \in N : TRUE
         IN  Max(0, Min(i[2], hi - 1) - Max(i[1], lo) + 1) + RowsIn(N \ {i}, lo, hi)

\* the rows of mask[lo:hi, :] that are set
RowsSet(M, lo, hi) == RowsIn(Normalize(M), lo, hi)

\* a variant whose slice takes row hi as well
CountNonZeroInclusive(M, lo, hi, width) == RowsSet(M, lo, hi + 1) * width

\* cv2.countNonZero(mask[lo:hi, :])
CountNonZero(M, lo, hi, width) == RowsSet(M, lo, hi) * width

---------------------------------------------------------------------------
(* analyze_fill_level, step by step *)

\* white_mask = cv2.inRange(hsv, lower_white, upper_white)
lower_white == <<0, 0, 200>>
upper_white == <<180, 30, 255>>
\* color_mask = cv2.inRange(hsv, lower_color, upper_color)
lower_color == <<0, 50, 50>>
upper_color == <<180, 255, 255>>

\* a variant that opens first and closes after
ProductMaskOpenFirst(img) ==
    LET white_mask == InRangeMask(img, lower_white, upper_white)
        inverted == BitwiseNot(white_mask, img.height)
        opened == MorphOpen(inverted, img.height)
    IN  MorphClose(opened, img.height)

\* Method 1: the product mask, not-white pixels cleaned by a closing then an opening
ProductMask(img) ==
    LET white_mask == InRangeMask(img, lower_white, upper_white)
        inverted == BitwiseNot(white_mask, img.height)
        closed == MorphClose(inverted, img.height)
    IN  MorphOpen(closed, img.height)

\* a variant that counts every colourful pixel, product or not
SnackMaskUnmasked(img, product_mask) == InRangeMask(img, lower_color, upper_color)

\* Method 3: the snack mask, product pixels that are also colourful
SnackMask(img, product_mask) ==
    BitwiseAnd(product_mask, InRangeMask(img, lower_color, upper_color))

\* a sequence of integers in non-decreasing order
RECURSIVE Sorted(_)
Sorted(s) ==
    IF Len(s) <= 1 THEN s
    ELSE LET k == CHOOSE i \in 1..Len(s) : \A j \in 1..Len(s) : s[i] <= s[j]
             rest == [i \in 1..(Len(s) - 1) |-> IF i < k THEN s[i] ELSE s[i + 1]]
         IN  <<s[k]>> \o Sorted(rest)

\* int(np.median(values)) of a non-empty list of non-negative integers
MedianInt(values) ==
    LET s == Sorted(values)
        n == Len(s)
    IN  IF n % 2 = 1 THEN s[(n + 1) \div 2]
        ELSE QFloor(Q(s[n \div 2] + s[n \div 2 + 1], 2))

\* a variant that keeps the midpoint of every segment, steep or not
RECURSIVE HorizontalLinesUnfiltered(_)
HorizontalLinesUnfiltered(lines) ==
    IF lines = <<>> THEN <<>>
    ELSE <<(Head(lines)[2] + Head(lines)[4]) \div 2>> \o HorizontalLinesUnfiltered(Tail(lines))

\* the midpoints of the segments <<x1, y1, x2, y2>> that are roughly horizontal
RECURSIVE HorizontalLines(_)
HorizontalLines(lines) ==
    IF lines = <<>> THEN <<>>
    ELSE LET y1 == Head(lines)[2]
             y2 == Head(lines)[4]
         IN  (IF Abs(y2 - y1) < 20 THEN <<(y1 + y2) \div 2>> ELSE <<>>)
                 \o HorizontalLines(Tail(lines))

\* Method 2: the row of the fill line, None when there is none
FillLineY(lines) ==
    IF lines = None THEN None
    ELSE LET horizontal_lines == HorizontalLines(lines[1])
         IN  IF horizontal_lines = <<>> THEN None ELSE Some(MedianInt(horizontal_lines))

\* a variant that tries the middle-band rule before the top-band rule
VerticalScoreReordered(top_third_pixels, middle_third_pixels, bottom_third_pixels) ==
    LET total_filled == top_third_pixels + middle_third_pixels + bottom_third_pixels
    IN  IF total_filled = 0 THEN 0
        ELSE IF middle_third_pixels > Max(top_third_pixels, bottom_third_pixels) THEN 7
        ELSE IF QLt(QMul(QInt(total_filled), Q(45, 100)), QInt(top_third_pixels)) THEN 9
        ELSE IF bottom_third_pixels > middle_third_pixels THEN 4
        ELSE 5

\* a variant whose total leaves the bottom band out
VerticalScoreNoBottom(top_third_pixels, middle_third_pixels, bottom_third_pixels) ==
    LET total_filled == top_third_pixels + middle_third_pixels
    IN  IF total_filled = 0 THEN 0
        ELSE IF QLt(QMul(QInt(total_filled), Q(45, 100)), QInt(top_third_pixels)) THEN 9
        ELSE IF middle_third_pixels > Max(top_third_pixels, bottom_third_pixels) THEN 7
        ELSE IF bottom_third_pixels > middle_third_pixels THEN 4
        ELSE 5

\* a variant whose bottom rule asks the bottom band to hold more than both others
VerticalScoreBottomMost(top_third_pixels, middle_third_pixels, bottom_third_pixels) ==
    LET total_filled == top_third_pixels + middle_third_pixels + bottom_third_pixels
    IN  IF total_filled = 0 THEN 0
        ELSE IF QLt(QMul(QInt(total_filled), Q(45, 100)), QInt(top_third_pixels)) THEN 9
        ELSE IF middle_third_pixels > Max(top_third_pixels, bottom_third_pixels) THEN 7
        ELSE IF bottom_third_pixels > Max(top_third_pixels, middle_third_pixels) THEN 4
        ELSE 5

\* a variant whose top rule asks for more than 30 percent
VerticalScoreTopFromThirty(top_third_pixels, middle_third_pixels, bottom_third_pixels) ==
    LET total_filled == top_third_pixels + middle_third_pixels + bottom_third_pixels
    IN  IF total_filled = 0 THEN 0
        ELSE IF QLt(QMul(QInt(total_filled), Q(30, 100)), QInt(top_third_pixels)) THEN 9
        ELSE IF middle_third_pixels > Max(top_third_pixels, bottom_third_pixels) THEN 7
        ELSE IF bottom_third_pixels > middle_third_pixels THEN 4
        ELSE 5

\* the score of the vertical distribution over the three bands
VerticalScore(top_third_pixels, middle_third_pixels, bottom_third_pixels) ==
    LET total_filled == top_third_pixels + middle_third_pixels + bottom_third_pixels
    IN  IF total_filled = 0 THEN 0
        ELSE IF QLt(QMul(QInt(total_filled), Q(45, 100)), QInt(top_third_pixels)) THEN 9
        ELSE IF middle_third_pixels > Max(top_third_pixels, bottom_third_pixels) THEN 7
        ELSE IF bottom_third_pixels > middle_third_pixels THEN 4
        ELSE 5

\* a variant that takes no line for an empty tray
FillLineScoreZeroDefault(fill_line_y, height) ==
    IF fill_line_y = None THEN QInt(0)
    ELSE QMin(QInt(10), QMul(QSub(QInt(1), Q(fill_line_y[1], height)), QInt(10)))

\* a variant that does not invert the ratio: a line further down scores higher
FillLineScoreNotInverted(fill_line_y, height) ==
    IF fill_line_y = None THEN QInt(5)
    ELSE QMin(QInt(10), QMul(Q(fill_line_y[1], height), QInt(10)))

\* the score of the fill line: 5 without a line
FillLineScore(fill_line_y, height) ==
    IF fill_line_y = None THEN QInt(5)
    ELSE LET fill_ratio == QSub(QInt(1), Q(fill_line_y[1], height))
         IN  QMin(QInt(10), QMul(fill_ratio, QInt(10)))

\* a variant without the cap
SnackBonusUncapped(snack_percent) == QDiv(snack_percent, QInt(20))

\* a variant that saturates at 40 percent
SnackBonusLateCap(snack_percent) == QMin(Q(15, 10), QMul(snack_percent, Q(3, 80)))

\* snack_bonus = min(1.5, snack_percent / 20)
SnackBonus(snack_percent) == QMin(Q(15, 10), QDiv(snack_percent, QInt(20)))

\* fill_score = min(10, (fill_percent / 100) * 10)
FillScore(fill_percent) == QMin(QInt(10), QMul(QDiv(fill_percent, QInt(100)), QInt(10)))

\* a variant with the weights of the vertical and the fill-line signal exchanged
CombinedScoreSwapped(fill_score, vertical_score, fill_line_score, snack_bonus) ==
    QAdd(QAdd(QAdd(QMul(fill_score, Q(50, 100)),
                   QMul(QInt(vertical_score), Q(15, 100))),
              QMul(fill_line_score, Q(20, 100))),
         QMul(QMul(snack_bonus, QInt(10)), Q(15, 100)))

\* a variant that takes the snack bonus off the sum
CombinedScorePenalised(fill_score, vertical_score, fill_line_score, snack_bonus) ==
    QSub(QAdd(QAdd(QMul(fill_score, Q(50, 100)),
                   QMul(QInt(vertical_score), Q(20, 100))),
              QMul(fill_line_score, Q(15, 100))),
         QMul(QMul(snack_bonus, QInt(10)), Q(15, 100)))

\* the weighted sum of the four signals
CombinedScore(fill_score, vertical_score, fill_line_score, snack_bonus) ==
    LET vert_weighted == QMul(QDiv(QInt(vertical_score), QInt(10)), QInt(10))
        line_weighted == QMul(QDiv(fill_line_score, QInt(10)), QInt(10))
        snack_weighted == QMul(snack_bonus, QInt(10))
    IN  QAdd(QAdd(QAdd(QMul(fill_score, Q(50, 100)),
                       QMul(vert_weighted, Q(20, 100))),
                  QMul(line_weighted, Q(15, 100))),
             QMul(snack_weighted, Q(15, 100)))

\* a variant without the clamp
FinalScoreUnclamped(combined_score) == combined_score

\* final_score = min(10, max(0, combined_score))
FinalScore(combined_score) == QMin(QInt(10), QMax(QInt(0), combined_score))

\* a variant whose top boundary belongs to the lower category
categorize_score_closed(score) ==
    IF QLt(score, QInt(1)) THEN "empty"
    ELSE IF QLt(score, QInt(3)) THEN "sparse"
    ELSE IF QLt(score, QInt(5)) THEN "partial"
    ELSE IF QLt(score, QInt(7)) THEN "good"
    ELSE IF QLe(score, Q(95, 10)) THEN "nearly_full"
    ELSE "full"

\* a variant that calls a tray full from 9 on
categorize_score_full_from_9(score) ==
    IF QLt(score, QInt(1)) THEN "empty"
    ELSE IF QLt(score, QInt(3)) THEN "sparse"
    ELSE IF QLt(score, QInt(5)) THEN "partial"
    ELSE IF QLt(score, QInt(7)) THEN "good"
    ELSE IF QLt(score, QInt(9)) THEN "nearly_full"
    ELSE "full"

categorize_score(score) ==
    IF QLt(score, QInt(1)) THEN "empty"
    ELSE IF QLt(score, QInt(3)) THEN "sparse"
    ELSE IF QLt(score, QInt(5)) THEN "partial"
    ELSE IF QLt(score, QInt(7)) THEN "good"
    ELSE IF QLt(score, Q(95, 10)) THEN "nearly_full"
    ELSE "full"

\* the locals of analyze_fill_level for a decoded image and the segments found in it
Locals(img, lines) ==
    LET height == img.height
        width == img.width
        product_mask == ProductMask(img)
        snack_mask == SnackMask(img, product_mask)
        fill_line_y == FillLineY(lines)
        total_pixels == height * width
        filled_pixels == CountNonZero(product_mask, 0, height, width)
        snack_pixels == CountNonZero(snack_mask, 0, height, width)
        fill_percent == QMul(Q(filled_pixels, total_pixels), QInt(100))
        snack_percent == QMul(Q(snack_pixels, total_pixels), QInt(100))
        top_third_pixels == CountNonZero(product_mask, 0, height \div 3, width)
        middle_third_pixels == CountNonZero(product_mask, height \div 3, (2 * height) \div 3, width)
        bottom_third_pixels == CountNonZero(product_mask, (2 * height) \div 3, height, width)
        vertical_score == VerticalScore(top_third_pixels, middle_third_pixels, bottom_third_pixels)
        fill_line_score == FillLineScore(fill_line_y, height)
        snack_bonus == SnackBonus(snack_percent)
        fill_score == FillScore(fill_percent)
        combined_score == CombinedScore(fill_score, vertical_score, fill_line_score, snack_bonus)
    IN  [height |-> height, width |-> width,
         product_mask |-> Normalize(product_mask), snack_mask |-> Normalize(snack_mask),
         fill_line_y |-> fill_line_y,
         total_pixels |-> total_pixels, filled_pixels |-> filled_pixels,
         snack_pixels |-> snack_pixels,
         fill_percent |-> fill_percent, snack_percent |-> snack_percent,
         top_third_pixels |-> top_third_pixels,
         middle_third_pixels |-> middle_third_pixels,
         bottom_third_pixels |-> bottom_third_pixels,
         total_filled |-> top_third_pixels + middle_third_pixels + bottom_third_pixels,
         vertical_score |-> vertical_score, fill_line_score |-> fill_line_score,
         snack_bonus |-> snack_bonus, fill_score |-> fill_score,
         combined_score |-> combined_score, final_score |-> FinalScore(combined_score)]

\* Python truth of fill_line_y: None and 0 are false
Truthy(y) == y # None /\ y[1] # 0

\* a band's share of the product pixels, in percent
BandPercent(band_pixels, total_filled) ==
    IF total_filled > 0 THEN Round2(QMul(Q(band_pixels, Max(1, total_filled)), QInt(100)))
    ELSE QInt(0)

\* the result record built from the locals
ResultRecord(L) ==
    [fill_percent |-> Round2(L.fill_percent),
     snack_percent |-> Round2(L.snack_percent),
     fill_score |-> Round2(L.fill_score),
     vertical_score |-> L.vertical_score,
     fill_line_score |-> IF Truthy(L.fill_line_y) THEN Round2(L.fill_line_score) ELSE QInt(0),
     combined_score |-> Round2(L.combined_score),
     final_score |-> Round2(L.final_score),
     category |-> categorize_score(L.final_score),
     has_fill_line |-> L.fill_line_y # None,
     fill_line_position |-> IF Truthy(L.fill_line_y) THEN L.fill_line_y ELSE None,
     detail |->
        [total_pixels |-> L.total_pixels,
         filled_pixels |-> L.filled_pixels,
         snack_pixels |-> L.snack_pixels,
         vertical_distribution |->
            [top_third_percent |-> BandPercent(L.top_third_pixels, L.total_filled),
             middle_third_percent |-> BandPercent(L.middle_third_pixels, L.total_filled),
             bottom_third_percent |-> BandPercent(L.bottom_third_pixels, L.total_filled)],
         scoring_breakdown |->
            [fill_score_weight |-> "50%", vertical_score_weight |-> "20%",
             fill_line_weight |-> "15%", snack_detection_weight |-> "15%"]]]

\* test_categories (simple_test.py): the ladder written out in the test loop
test_categories_category(score) ==
    IF QLt(score, QInt(1)) THEN "empty"
    ELSE IF QLt(score, QInt(3)) THEN "sparse"
    ELSE IF QLt(score, QInt(5)) THEN "partial"
    ELSE IF QLt(score, QInt(7)) THEN "good"
    ELSE IF QLt(score, Q(95, 10)) THEN "nearly_full"
    ELSE "full"

\* validate_result (test_visual_occupancy.py): the score interval of a category
category_map ==
    [empty |-> <<QInt(0), QInt(1)>>, sparse |-> <<QInt(1), QInt(3)>>,
     partial |-> <<QInt(3), QInt(5)>>, good |-> <<QInt(5), QInt(7)>>,
     nearly_full |-> <<QInt(7), Q(95, 10)>>, full |-> <<Q(95, 10), QInt(10)>>]

\* validate_result: no "Score doesn't match category" warning for the record
ScoreMatchesCategory(rec) ==
    LET expected == IF rec.category \in DOMAIN category_map THEN category_map[rec.category]
                    ELSE <<QInt(0), QInt(10)>>
    IN  QLe(expected[1], rec.final_score) /\ QLe(rec.final_score, expected[2])

---------------------------------------------------------------------------
(* The files, what the libraries do with them, and the debug images *)

\* Path(image_path).with_stem(Path(image_path).stem + suffix)
WithStem(image_path, suffix) == [image_path EXCEPT !.stem = @ \o <<suffix>>]

\* a variant that writes the product mask over the analysed image
DebugPathsInPlace(image_path) ==
    <<image_path, WithStem(image_path, "_edges"), WithStem(image_path, "_snack_mask")>>

\* the three debug images, in the order they are written
DebugPaths(image_path) ==
    <<WithStem(image_path, "_product_mask"), WithStem(image_path, "_edges"),
      WithStem(image_path, "_snack_mask")>>

\* the file extensions cv2.imwrite has an encoder for (those the model uses)
Encoders == {".png"}

\* cv2.imread: the decoded image, or None when the file is no image
Imread(dsk) == IF dsk.exists THEN dsk.image ELSE None

\* the cv2.imwrite calls on paths, in order: imwrite raises cv2.error when it has
\* no encoder for the extension and returns False, writing nothing, when the
\* file cannot be created
RECURSIVE ImwriteAll(_, _)
ImwriteAll(paths, dsk) ==
    IF paths = <<>> THEN [written |-> {}, raised |-> FALSE]
    ELSE IF Head(paths).suffix \notin Encoders THEN [written |-> {}, raised |-> TRUE]
    ELSE LET rest == ImwriteAll(Tail(paths), dsk)
         IN  [written |-> (IF dsk.dir_writable THEN {Head(paths)} ELSE {}) \cup rest.written,
              raised |-> rest.raised]

\* the stripes of a mask written out as an image, from row r on: set rows are
\* white (255), the others black (0)
RECURSIVE MaskStripes(_, _, _)
MaskStripes(N, r, height) ==
    IF r >= height THEN <<>>
    ELSE LET nxt == IF Covered(N, r)
                    THEN (CHOOSE i \in N : i[1] <= r /\ r <= i[2])[2] + 1
                    ELSE LET starts == {i[1] : i \in {j \in N : j[1] > r}}
                         IN  IF starts = {} THEN height
                             ELSE CHOOSE b \in starts : \A c \in starts : b <= c
         IN  <<[kind |-> IF Covered(N, r) THEN "white" ELSE "black", rows |-> nxt - r]>>
                 \o MaskStripes(N, nxt, height)

\* what cv2.imread decodes from the file cv2.imwrite made of a mask
MaskImage(M, height, width) ==
    [height |-> height, width |-> width, stripes |-> MaskStripes(Normalize(M), 0, height)]

\* cv2.Canny on a striped image: an edge along every colour boundary, taken here
\* at the first row of the lower stripe
EdgesMask(img) ==
    {<<StripeTop(img.stripes, k), StripeTop(img.stripes, k)>> : k \in 2..Len(img.stripes)}

\* the three images the debug branch writes, in order
DebugImages(img, L) ==
    <<MaskImage(L.product_mask, L.height, L.width),
      MaskImage(EdgesMask(img), L.height, L.width),
      MaskImage(L.snack_mask, L.height, L.width)>>

\* the accumulator threshold given to cv2.HoughLinesP
HoughThreshold == 100

\* the stripes an image can be made of: neighbours differ in colour
StripeSeqs ==
    {s \in UNION {[1..n -> [kind : Kinds, rows : StripeRows]] : n \in 1..MaxStripes} :
        \A k \in 1..(Len(s) - 1) : s[k].kind # s[k + 1].kind}

Images == {[height |-> Height(s), width |-> w, stripes |-> s] : s \in StripeSeqs, w \in Widths}

\* the segments <<x1, y1, x2, y2>> HoughLinesP may find in a striped image: along
\* the first colour boundary, level or a row off, or dropping 20 rows across the width
SegmentChoices(img) ==
    LET b == StripeTop(img.stripes, 2)
    IN  {<<0, b, img.width - 1, b>>, <<0, b - 1, img.width - 1, b>>}
            \cup (IF b + 20 <= img.height - 1 THEN {<<0, b, img.width - 1, b + 20>>} ELSE {})

\* what cv2.HoughLinesP(edges, ...) may return: None on an image of one colour
\* (Canny finds no edge) and on an image too narrow for a row of edge pixels to
\* gather the threshold's votes, else None or a list of segments
HoughOutputs(img) ==
    IF Len(img.stripes) = 1 \/ img.width < HoughThreshold THEN {None}
    ELSE {None} \cup {Some(lines) : lines \in UNION {[1..n -> SegmentChoices(img)] : n \in 1..MaxSegs}}

ImagePaths == {[stem |-> <<"tray">>, suffix |-> x] : x \in {".png", ""}}

---------------------------------------------------------------------------
(* The CLI process *)

Init ==
    /\ args \in [image : ImagePaths, debug : BOOLEAN]
    /\ disk \in [exists : {FALSE}, image : {None}, dir_writable : BOOLEAN]
                  \cup [exists : {TRUE}, image : {None} \cup {Some(img) : img \in Images},
                        dir_writable : BOOLEAN]
    /\ hough \in (IF Imread(disk) = None THEN {None} ELSE HoughOutputs(Imread(disk)[1]))
    /\ pc = "main"
    /\ frame = None
    /\ result = None
    /\ exc = None
    /\ written = {}
    /\ stdout = None
    /\ stderr = None
    /\ exit_code = None
    /\ fin = None
    /\ fout = None

\* main, the image path does not exist: an error on stderr and exit status 1
MainNotFound ==
    /\ pc = "main"
    /\ ~disk.exists
    /\ stderr' = Some([error |-> "Image not found"])
    /\ exit_code' = Some(1)
    /\ pc' = "exit"
    /\ UNCHANGED <<args, disk, hough, frame, result, exc, written, stdout, fin, fout>>

\* main, the image path exists: analyze_fill_level is called
MainCall ==
    /\ pc = "main"
    /\ disk.exists
    /\ pc' = "call"
    /\ UNCHANGED <<args, disk, hough, frame, result, exc, written, stdout, stderr, exit_code, fin, fout>>

\* analyze_fill_level, the image cannot be decoded: ValueError before anything is computed
AnalyzeUnreadable ==
    /\ pc = "call"
    /\ Imread(disk) = None
    /\ exc' = Some([type |-> "ValueError", message |-> "Cannot read image"])
    /\ pc' = "raised"
    /\ UNCHANGED <<args, disk, hough, frame, result, written, stdout, stderr, exit_code, fin, fout>>

\* analyze_fill_level on a decoded image: the signals, the record, and with debug
\* the three debug images; an exception of cv2.imwrite leaves the function
AnalyzeFillLevel ==
    /\ pc = "call"
    /\ Imread(disk) # None
    /\ LET L == Locals(Imread(disk)[1], hough)
           w == IF args.debug THEN ImwriteAll(DebugPaths(args.image), disk)
                ELSE [written |-> {}, raised |-> FALSE]
       IN  /\ frame' = Some(L)
           /\ written' = w.written
           /\ IF w.raised
              THEN /\ exc' = Some([type |-> "cv2.error", message |-> "could not find a writer"])
                   /\ result' = None
                   /\ pc' = "raised"
              ELSE /\ exc' = None
                   /\ result' = Some(ResultRecord(L))
                   /\ pc' = "returned"
    /\ UNCHANGED <<args, disk, hough, stdout, stderr, exit_code, fin, fout>>

\* main, analyze_fill_level returned: the record on stdout, exit status 0
MainPrint ==
    /\ pc = "returned"
    /\ stdout' = result
    /\ exit_code' = Some(0)
    /\ pc' = "exit"
    /\ UNCHANGED <<args, disk, hough, frame, result, exc, written, stderr, fin, fout>>

\* a variant of the handler that reports the failure on stdout and exits normally
MainExceptSwallowed ==
    /\ pc = "raised"
    /\ stdout' = Some([error |-> exc[1].message])
    /\ exit_code' = Some(0)
    /\ pc' = "exit"
    /\ UNCHANGED <<args, disk, hough, frame, result, exc, written, stderr, fin, fout>>

\* main, analyze_fill_level raised: the message on stderr, exit status 1
MainExcept ==
    /\ pc = "raised"
    /\ stderr' = Some([error |-> exc[1].message])
    /\ exit_code' = Some(1)
    /\ pc' = "exit"
    /\ UNCHANGED <<args, disk, hough, frame, result, exc, written, stdout, fin, fout>>

\* images with a colour boundary right under the top row or right above the bottom
\* row: two stripes, wide enough for a Hough line
LineStripeRows == {1, 19}
LineImages ==
    {[height |-> Height(s), width |-> 120, stripes |-> s] :
        s \in {t \in [1..2 -> [kind : Kinds, rows : LineStripeRows]] : t[1].kind # t[2].kind}}

\* the CLI started on one of these images
LineInit ==
    /\ args \in [image : ImagePaths, debug : BOOLEAN]
    /\ disk \in [exists : {FALSE}, image : {None}, dir_writable : BOOLEAN]
                  \cup [exists : {TRUE}, image : {None} \cup {Some(img) : img \in LineImages},
                        dir_writable : BOOLEAN]
    /\ hough \in (IF Imread(disk) = None THEN {None} ELSE HoughOutputs(Imread(disk)[1]))
    /\ pc = "main"
    /\ frame = None
    /\ result = None
    /\ exc = None
    /\ written = {}
    /\ stdout = None
    /\ stderr = None
    /\ exit_code = None
    /\ fin = None
    /\ fout = None

Next ==
    \/ MainNotFound
    \/ MainCall
    \/ AnalyzeUnreadable
    \/ AnalyzeFillLevel
    \/ MainPrint
    \/ MainExcept

Spec == Init /\ [][Next]_vars

SpecLine == LineInit /\ [][Next]_vars

---------------------------------------------------------------------------
(* categorize_score on its own: two scores are drawn and categorized *)

\* the scores tried: every quarter from -1 to MaxScore, and the hundredths next
\* to the boundaries of the ladder
ScoreGrid ==
    {Q(k, 100) : k \in {j \in (-100)..(MaxScore * 100) :
        j % 25 = 0 \/ \E b \in {100, 300, 500, 700, 950} : Abs(j - b) <= 1}}

CatInit ==
    /\ fin \in [a : ScoreGrid, b : ScoreGrid]
    /\ fout = None
    /\ pc = "fn"
    /\ args = None /\ disk = None /\ hough = None /\ frame = None /\ result = None
    /\ exc = None /\ written = {} /\ stdout = None /\ stderr = None /\ exit_code = None

Categorize ==
    /\ pc = "fn"
    /\ fout' = Some(<<categorize_score(fin.a), categorize_score(fin.b)>>)
    /\ pc' = "done"
    /\ UNCHANGED <<args, disk, hough, frame, result, exc, written, stdout, stderr, exit_code, fin>>

CatNext == Categorize

SpecCat == CatInit /\ [][CatNext]_vars

\* the ladder of the engine and the ladder of the test applied to one score
Ladders ==
    /\ pc = "fn"
    /\ fout' = Some([code |-> categorize_score(fin.a), test |-> test_categories_category(fin.a)])
    /\ pc' = "done"
    /\ UNCHANGED <<args, disk, hough, frame, result, exc, written, stdout, stderr, exit_code, fin>>

LaddersNext == Ladders

SpecLadders == CatInit /\ [][LaddersNext]_vars

---------------------------------------------------------------------------
(* The vertical score on its own: the rule ladder applied to three band counts *)

VertInit ==
    /\ fin \in [top : 0..MaxBand, mid : 0..MaxBand, bottom : 0..MaxBand]
    /\ fout = None
    /\ pc = "fn"
    /\ args = None /\ disk = None /\ hough = None /\ frame = None /\ result = None
    /\ exc = None /\ written = {} /\ stdout = None /\ stderr = None /\ exit_code = None

VertScore ==
    /\ pc = "fn"
    /\ fout' = Some(VerticalScore(fin.top, fin.mid, fin.bottom))
    /\ pc' = "done"
    /\ UNCHANGED <<args, disk, hough, frame, result, exc, written, stdout, stderr, exit_code, fin>>

VertNext == VertScore

SpecVert == VertInit /\ [][VertNext]_vars

---------------------------------------------------------------------------
(* The snack bonus on its own: applied to two snack percentages *)

\* the percentages tried: every whole percent, and the hundredths next to 30
PercentGrid ==
    {Q(k, 100) : k \in {j \in 0..(MaxPercent * 100) : j % 100 = 0 \/ Abs(j - 3000) <= 1}}

BonusInit ==
    /\ fin \in [a : PercentGrid, b : PercentGrid]
    /\ fout = None
    /\ pc = "fn"
    /\ args = None /\ disk = None /\ hough = None /\ frame = None /\ result = None
    /\ exc = None /\ written = {} /\ stdout = None /\ stderr = None /\ exit_code = None

Bonus ==
    /\ pc = "fn"
    /\ fout' = Some(<<SnackBonus(fin.a), SnackBonus(fin.b)>>)
    /\ pc' = "done"
    /\ UNCHANGED <<args, disk, hough, frame, result, exc, written, stdout, stderr, exit_code, fin>>

BonusNext == Bonus

SpecBonus == BonusInit /\ [][BonusNext]_vars

---------------------------------------------------------------------------
(* The fill-line score on its own: applied to two rows of an image *)

LineScoreInit ==
    /\ fin \in {f \in [height : 1..MaxHeight, y : 0..(MaxHeight - 1), y2 : 0..(MaxHeight - 1)] :
                    f.y <= f.height - 1 /\ f.y2 <= f.height - 1}
    /\ fout = None
    /\ pc = "fn"
    /\ args = None /\ disk = None /\ hough = None /\ frame = None /\ result = None
    /\ exc = None /\ written = {} /\ stdout = None /\ stderr = None /\ exit_code = None

LineScore ==
    /\ pc = "fn"
    /\ fout' = Some(<<FillLineScore(Some(fin.y), fin.height), FillLineScore(Some(fin.y2), fin.height)>>)
    /\ pc' = "done"
    /\ UNCHANGED <<args, disk, hough, frame, result, exc, written, stdout, stderr, exit_code, fin>>

LineScoreNext == LineScore

SpecLineScore == LineScoreInit /\ [][LineScoreNext]_vars

---------------------------------------------------------------------------
(* The fill-line row on its own: computed from a list of segments *)

\* the rows the end points of the segments lie on, in an image of LineRowsHeight
\* rows: they differ by less than 20, by 20, and by more
LineRows == {0, 4, 9, 29}
LineRowsHeight == 30

\* the segments <<x1, y1, x2, y2>> tried
LineSegments == {<<0, y1, 119, y2>> : y1 \in LineRows, y2 \in LineRows}

FillLineInit ==
    /\ fin \in [height : {LineRowsHeight},
                 lines : {None} \cup {Some(l) : l \in UNION {[1..n -> LineSegments] : n \in 1..MaxLines}}]
    /\ fout = None
    /\ pc = "fn"
    /\ args = None /\ disk = None /\ hough = None /\ frame = None /\ result = None
    /\ exc = None /\ written = {} /\ stdout = None /\ stderr = None /\ exit_code = None

FillLine ==
    /\ pc = "fn"
    /\ fout' = Some(FillLineY(fin.lines))
    /\ pc' = "done"
    /\ UNCHANGED <<args, disk, hough, frame, result, exc, written, stdout, stderr, exit_code, fin>>

FillLineNext == FillLine

SpecFillLine == FillLineInit /\ [][FillLineNext]_vars

---------------------------------------------------------------------------
(* The fusion on its own: applied to two quadruples of signals, the second    *)
(* being the first with one signal raised                                     *)

\* final_score from the four signals (lines 120-144)
Fusion(fill_percent, vertical_score, fill_line_score, snack_percent) ==
    FinalScore(CombinedScore(FillScore(fill_percent), vertical_score, fill_line_score,
                             SnackBonus(snack_percent)))

\* the signals tried
FusionInputs ==
    [fill_percent : {QInt(0), QInt(25), QInt(50), Q(995, 10), QInt(100)},
     vertical_score : {0, 4, 5, 7, 9},
     fill_line_score : {Q(1, 2), Q(5, 2), QInt(5), Q(15, 2), QInt(10)},
     snack_percent : {QInt(0), QInt(10), QInt(30), QInt(100)}]

\* b is a with one signal raised and the other three as they are
RaisesOne(a, b) ==
    \/ /\ QLt(a.fill_percent, b.fill_percent)
       /\ b = [a EXCEPT !.fill_percent = b.fill_percent]
    \/ /\ a.vertical_score < b.vertical_score
       /\ b = [a EXCEPT !.vertical_score = b.vertical_score]
    \/ /\ QLt(a.fill_line_score, b.fill_line_score)
       /\ b = [a EXCEPT !.fill_line_score = b.fill_line_score]
    \/ /\ QLt(a.snack_percent, b.snack_percent)
       /\ b = [a EXCEPT !.snack_percent = b.snack_percent]

FusionInit ==
    /\ fin \in {f \in [a : FusionInputs, b : FusionInputs] : RaisesOne(f.a, f.b)}
    /\ fout = None
    /\ pc = "fn"
    /\ args = None /\ disk = None /\ hough = None /\ frame = None /\ result = None
    /\ exc = None /\ written = {} /\ stdout = None /\ stderr = None /\ exit_code = None

Fuse ==
    /\ pc = "fn"
    /\ LET fa == Fusion(fin.a.fill_percent, fin.a.vertical_score, fin.a.fill_line_score,
                        fin.a.snack_percent)
           fb == Fusion(fin.b.fill_percent, fin.b.vertical_score, fin.b.fill_line_score,
                        fin.b.snack_percent)
       IN  fout' = Some(<<[final_score |-> fa, category |-> categorize_score(fa)],
                         [final_score |-> fb, category |-> categorize_score(fb)]>>)
    /\ pc' = "done"
    /\ UNCHANGED <<args, disk, hough, frame, result, exc, written, stdout, stderr, exit_code, fin>>

FusionNext == Fuse

SpecFusion == FusionInit /\ [][FusionNext]_vars

---------------------------------------------------------------------------
(* The product mask on its own: computed on images of thin and thick stripes, *)
(* background and product in turn                                             *)

\* the heights of a stripe: a single row, thinner than the kernel, as thick
MorphStripeRows == {1, 4, 5}

MorphImages ==
    {[height |-> Height(st), width |-> 120, stripes |-> st] :
        st \in {t \in UNION {[1..n -> [kind : {"white", "grey"}, rows : MorphStripeRows]] :
                                n \in 1..MaxMorphStripes} :
                    \A k \in 1..(Len(t) - 1) : t[k].kind # t[k + 1].kind}}

MorphInit ==
    /\ fin \in [img : MorphImages]
    /\ fout = None
    /\ pc = "fn"
    /\ args = None /\ disk = None /\ hough = None /\ frame = None /\ result = None
    /\ exc = None /\ written = {} /\ stdout = None /\ stderr = None /\ exit_code = None

Morph ==
    /\ pc = "fn"
    /\ fout' = Some(Normalize(ProductMask(fin.img)))
    /\ pc' = "done"
    /\ UNCHANGED <<args, disk, hough, frame, result, exc, written, stdout, stderr, exit_code, fin>>

MorphNext == Morph

SpecMorph == MorphInit /\ [][MorphNext]_vars

---------------------------------------------------------------------------
(* smart_cookie_detector: the drawer regions of an image and their consumers  *)

\* the 6 drawer regions of an image of h rows and w columns, left and right
\* of the rows 0, 1, 2; int(h * 0.2) is h \div 5 for an integer h
detect_drawer_regions(h, w) ==
    LET drawer_height == h \div 4
        y_start(i) == (h \div 5) + (i * drawer_height)
        y_end(i) == y_start(i) + drawer_height
        left(i) == [id |-> <<"drawer", i, "left">>,
                    bbox |-> <<0, y_start(i), w \div 2, y_end(i)>>,
                    side |-> "left"]
        right(i) == [id |-> <<"drawer", i, "right">>,
                     bbox |-> <<w \div 2, y_start(i), w \div 2, y_end(i)>>,
                     side |-> "right"]
    IN  <<left(0), right(0), left(1), right(1), left(2), right(2)>>

\* the rectangle detect_bottles_in_drawer tests the detections against
DrawerRect(drawer_bbox) ==
    LET drawer_x1 == drawer_bbox[1]
        drawer_y1 == drawer_bbox[2]
        drawer_w == drawer_bbox[3]
        drawer_h == drawer_bbox[4]
    IN  [x1 |-> drawer_x1, y1 |-> drawer_y1,
         x2 |-> drawer_x1 + drawer_w, y2 |-> drawer_y1 + drawer_h]

\* the bottles among the detections whose box overlaps the drawer
detect_bottles_in_drawer(detections, drawer_bbox) ==
    LET d == DrawerRect(drawer_bbox)
        overlaps(det) ==
            LET det_x1 == det.bbox[1]
                det_y1 == det.bbox[2]
                det_x2 == det_x1 + det.bbox[3]
                det_y2 == det_y1 + det.bbox[4]
            IN  /\ det_x1 < d.x2 /\ det_x2 > d.x1
                /\ det_y1 < d.y2 /\ det_y2 > d.y1
        bottle(det) == det.class = "bottle" /\ overlaps(det)
    IN  SelectSeq(detections, bottle)

\* the rows of img[drawer_y1:drawer_y1+drawer_h], a slice cut at the image
\* height: first row and the row after the last
DrawerRoiRows(drawer_bbox, h) ==
    <<Min(drawer_bbox[2], h), Min(drawer_bbox[2] + drawer_bbox[4], h)>>

calculate_fill_percentage(drawer_bbox, img_height) ==
    LET drawer_y1 == drawer_bbox[2]
    IN  IF 10 * drawer_y1 < 3 * img_height THEN 100
        ELSE IF 10 * drawer_y1 < 6 * img_height THEN 75
        ELSE 50

\* the row of the fill line draw_fill_lines draws for a drawer
FillLineRow(drawer_bbox, h) ==
    LET drawer_y1 == drawer_bbox[2]
        drawer_h == drawer_bbox[4]
        fill_percentage == calculate_fill_percentage(drawer_bbox, h)
    IN  drawer_y1 + ((drawer_h * fill_percentage) \div 100)

\* the YOLO detections handed over: one box of 2 columns at a row of the image
Detections(h, w) ==
    {<<[class |-> c, bbox |-> <<x, y, 2, dh>>]>> :
        c \in {"bottle", "cookie"}, x \in {0, w \div 2}, y \in 0..(h - 1), dh \in {1, 2}}

DrawersInit ==
    /\ fin \in UNION {[h : {h}, w : {120}, detections : Detections(h, 120)] : h \in 1..MaxHeight}
    /\ fout = None
    /\ pc = "fn"
    /\ args = None /\ disk = None /\ hough = None /\ frame = None /\ result = None
    /\ exc = None /\ written = {} /\ stdout = None /\ stderr = None /\ exit_code = None

\* the consumers go through the drawers of the image
Drawers ==
    /\ pc = "fn"
    /\ LET drawers == detect_drawer_regions(fin.h, fin.w)
       IN  fout' = Some([drawers |-> drawers,
                         rect |-> [k \in 1..6 |-> DrawerRect(drawers[k].bbox)],
                         bottles_in_drawer |->
                             [k \in 1..6 |-> detect_bottles_in_drawer(fin.detections, drawers[k].bbox)],
                         drawer_roi |-> [k \in 1..6 |-> DrawerRoiRows(drawers[k].bbox, fin.h)],
                         line_y |-> [k \in 1..6 |-> FillLineRow(drawers[k].bbox, fin.h)]])
    /\ pc' = "done"
    /\ UNCHANGED <<args, disk, hough, frame, result, exc, written, stdout, stderr, exit_code, fin>>

DrawersNext == Drawers

SpecDrawers == DrawersInit /\ [][DrawersNext]_vars

---------------------------------------------------------------------------
(* Two calls of analyze_fill_level on the files of one directory.  A call reads *)
(* its image, builds its record, with debug writes the three debug images one   *)
(* after the other, and returns.  cv2.imwrite creates the file empty and then   *)
(* fills it; an empty file cannot be decoded.                                   *)

Calls == {1, 2}

\* the files the calls are run on: a tray photo, and a file named as the photo's
\* product-mask debug image
CallPaths ==
    {[stem |-> <<"tray">>, suffix |-> ".png"],
     [stem |-> <<"tray", "_product_mask">>, suffix |-> ".png"]}

\* what the two files may hold at first
CallImages ==
    {[height |-> 256, width |-> 120,
      stripes |-> <<[kind |-> "grey", rows |-> 252], [kind |-> "white", rows |-> 4]>>],
     [height |-> 4, width |-> 1, stripes |-> <<[kind |-> "red", rows |-> 4]>>]}

\* the images a call can come to read: what the files hold at first, and the
\* product mask a debug call writes
CallContents(files) ==
    LET first == {files[f][1] : f \in {g \in DOMAIN files : files[g] # None}}
    IN  first \cup {MaskImage(ProductMask(img), img.height, img.width) : img \in first}

\* cv2.HoughLinesP is a function of the image (its random generator is seeded
\* anew in every call): one output is fixed for every image
HoughFunctions(imgs) ==
    {h \in [imgs -> {None} \cup UNION {{Some(<<seg>>) : seg \in SegmentChoices(img)} : img \in imgs}] :
        \A img \in imgs : h[img] \in HoughOutputs(img)}

CallsInit ==
    /\ args \in [Calls -> [image : CallPaths, debug : BOOLEAN]]
    /\ disk \in {[files |-> f, dir_writable |-> w] :
                    f \in {g \in [CallPaths -> {None} \cup {Some(img) : img \in CallImages}] :
                              g[[stem |-> <<"tray">>, suffix |-> ".png"]] # None},
                    w \in BOOLEAN}
    /\ hough \in HoughFunctions(CallContents(disk.files))
    /\ fin = [files |-> disk.files]
    /\ pc = [p \in Calls |-> [at |-> "call", done |-> 0]]
    /\ frame = [p \in Calls |-> None]
    /\ result = [p \in Calls |-> None]
    /\ exc = [p \in Calls |-> None]
    /\ written = {}
    /\ fout = None /\ stdout = None /\ stderr = None /\ exit_code = None

\* img = cv2.imread(image_path): ValueError when it is None, else the signals and
\* the record are computed
CallRead(p) ==
    /\ pc[p].at = "call"
    /\ LET file == disk.files[args[p].image]
       IN  IF file = None
           THEN /\ exc' = [exc EXCEPT ![p] = Some([type |-> "ValueError", message |-> "Cannot read image"])]
                /\ pc' = [pc EXCEPT ![p].at = "raised"]
                /\ UNCHANGED frame
           ELSE /\ frame' = [frame EXCEPT ![p] =
                                Some([img |-> file[1], L |-> Locals(file[1], hough[file[1]])])]
                /\ pc' = [pc EXCEPT ![p].at = "record"]
                /\ UNCHANGED exc
    /\ UNCHANGED <<args, disk, hough, result, written, stdout, stderr, exit_code, fin, fout>>

\* cv2.imwrite of the next debug image begins: the file is created empty
CallOpen(p) ==
    /\ pc[p].at = "record"
    /\ args[p].debug
    /\ pc[p].done < 3
    /\ LET path == DebugPaths(args[p].image)[pc[p].done + 1]
       IN  disk' = IF disk.dir_writable /\ path \in DOMAIN disk.files
                   THEN [disk EXCEPT !.files[path] = None]
                   ELSE disk
    /\ pc' = [pc EXCEPT ![p].at = "open"]
    /\ UNCHANGED <<args, hough, frame, result, exc, written, stdout, stderr, exit_code, fin, fout>>

\* cv2.imwrite of the debug image ends: the file holds the image
CallWrite(p) ==
    /\ pc[p].at = "open"
    /\ LET k == pc[p].done + 1
           path == DebugPaths(args[p].image)[k]
           image == DebugImages(frame[p][1].img, frame[p][1].L)[k]
       IN  /\ disk' = IF disk.dir_writable /\ path \in DOMAIN disk.files
                       THEN [disk EXCEPT !.files[path] = Some(image)]
                       ELSE disk
           /\ written' = IF disk.dir_writable THEN written \cup {path} ELSE written
           /\ pc' = [pc EXCEPT ![p] = [at |-> "record", done |-> k]]
    /\ UNCHANGED <<args, hough, frame, result, exc, stdout, stderr, exit_code, fin, fout>>

\* return result
CallReturn(p) ==
    /\ pc[p].at = "record"
    /\ args[p].debug => pc[p].done = 3
    /\ result' = [result EXCEPT ![p] = Some(ResultRecord(frame[p][1].L))]
    /\ pc' = [pc EXCEPT ![p].at = "returned"]
    /\ UNCHANGED <<args, disk, hough, frame, exc, written, stdout, stderr, exit_code, fin>>
    /\ UNCHANGED fout

CallStep(p) == CallRead(p) \/ CallOpen(p) \/ CallWrite(p) \/ CallReturn(p)

Finished(p) == pc[p].at \in {"returned", "raised"}

\* the calls run concurrently: every step of one may come between two steps of
\* the other
CallsNext == \E p \in Calls : CallStep(p)

SpecCalls == CallsInit /\ [][CallsNext]_vars

\* the calls run one after the other
TwiceNext == \E p \in Calls : (\A q \in Calls : q < p => Finished(q)) /\ CallStep(p)

SpecTwice == CallsInit /\ [][TwiceNext]_vars

---------------------------------------------------------------------------
(* Properties *)

\* the image is all of one colour
AllOf(img, kind) == \A k \in 1..Len(img.stripes) : img.stripes[k].kind = kind

\* no segment was extracted, or none of them is roughly horizontal
NoHorizontalSegment == hough = None \/ HorizontalLines(hough[1]) = <<>>

\* C1: whenever analyze_fill_level returns a record, its final_score lies in
\* [0, 10], also when the weighted sum lies outside
C1_FinalScoreInRange ==
    result # None =>
        /\ QLe(QInt(0), result[1].final_score)
        /\ QLe(result[1].final_score, QInt(10))

\* a record was returned for an image whose weighted sum exceeds 10
C1_Witness ==
    /\ result # None
    /\ QLt(QInt(10), frame[1].combined_score)
    /\ result[1].final_score = QInt(10)

\* C2: in every record the category is the ladder applied to the final_score
\* the record reports
C2_CategoryOfReportedScore ==
    result # None => result[1].category = categorize_score(result[1].final_score)

\* the place of a label on the ladder
Rank(label) ==
    CASE label = "empty" -> 0
      [] label = "sparse" -> 1
      [] label = "partial" -> 2
      [] label = "good" -> 3
      [] label = "nearly_full" -> 4
      [] label = "full" -> 5

\* C3: categorize_score maps every score to one of the six labels by the
\* half-open intervals [.,1) [1,3) [3,5) [5,7) [7,9.5) [9.5,.), a boundary
\* belonging to the higher label, and the label never falls as the score rises
C3_Ladder ==
    fout # None =>
        LET n == fin.a[1]
            d == fin.a[2]
            label == fout[1][1]
        IN  /\ label \in {"empty", "sparse", "partial", "good", "nearly_full", "full"}
            /\ label = "empty" <=> n < d
            /\ label = "sparse" <=> (d <= n /\ n < 3 * d)
            /\ label = "partial" <=> (3 * d <= n /\ n < 5 * d)
            /\ label = "good" <=> (5 * d <= n /\ n < 7 * d)
            /\ label = "nearly_full" <=> (7 * d <= n /\ 2 * n < 19 * d)
            /\ label = "full" <=> 19 * d <= 2 * n
            /\ QLe(fin.a, fin.b) => Rank(label) <= Rank(fout[1][2])

\* the boundary 9.5 is categorized full, and the hundredth below it nearly_full
C3_Witness ==
    /\ fout # None
    /\ fin.a = Q(949, 100) /\ fout[1][1] = "nearly_full"
    /\ fin.b = Q(95, 10) /\ fout[1][2] = "full"

\* C4: the signals are fused as fill_score = min(10, fill_percent / 10),
\* snack_bonus = min(1.5, snack_percent / 20), the fill-line score 5 without a
\* line, combined = 0.50 fill + 0.20 vertical + 0.15 line + 0.15 (10 bonus),
\* and final_score = combined_score clamped to [0, 10]
C4_Fusion ==
    frame # None =>
        LET L == frame[1]
        IN  /\ L.fill_score = QMin(QInt(10), QDiv(L.fill_percent, QInt(10)))
            /\ L.snack_bonus = QMin(Q(3, 2), QDiv(L.snack_percent, QInt(20)))
            /\ L.fill_line_y = None => L.fill_line_score = QInt(5)
            /\ L.combined_score =
                   QAdd(QAdd(QDiv(L.fill_score, QInt(2)), Q(L.vertical_score, 5)),
                        QAdd(QDiv(QMul(QInt(3), L.fill_line_score), QInt(20)),
                             QDiv(QMul(QInt(3), L.snack_bonus), QInt(2))))
            /\ L.final_score = (IF QLt(QInt(10), L.combined_score) THEN QInt(10)
                                ELSE IF QLt(L.combined_score, QInt(0)) THEN QInt(0)
                                ELSE L.combined_score)

\* the signals of an image with a fill line, a capped snack bonus, and a weighted
\* sum above 10
C4_Witness ==
    /\ frame # None
    /\ frame[1].fill_line_y # None
    /\ frame[1].snack_bonus = Q(3, 2)
    /\ frame[1].vertical_score = 7
    /\ QLt(QInt(10), frame[1].combined_score)

\* C5: when no extracted segment is roughly horizontal, the record reports
\* has_fill_line false, fill_line_position null and fill_line_score 5
C5_NoLineReportsNeutralScore ==
    (result # None /\ NoHorizontalSegment) =>
        /\ result[1].has_fill_line = FALSE
        /\ result[1].fill_line_position = None
        /\ result[1].fill_line_score = QInt(5)

\* C6 as claimed: an all-white image gives fill_percent 0, final_score 0 and
\* category empty
C6_WhiteImageScoresZero ==
    (result # None /\ AllOf(Imread(disk)[1], "white")) =>
        /\ result[1].fill_percent = QInt(0)
        /\ result[1].final_score = QInt(0)
        /\ result[1].category = "empty"

\* C6 amended: an all-white image gives fill_percent 0, category empty and
\* final_score 0.75, the neutral fill-line score 5 at its weight 0.15
C6_WhiteImageScoresNeutralLine ==
    (result # None /\ AllOf(Imread(disk)[1], "white")) =>
        /\ result[1].fill_percent = QInt(0)
        /\ result[1].final_score = Q(75, 100)
        /\ result[1].category = "empty"

\* a record was returned for an all-white image
C6_Witness ==
    /\ result # None
    /\ AllOf(Imread(disk)[1], "white")
    /\ frame[1].product_mask = {}

\* C7 as claimed: an all-red image gives fill_percent 100, snack_percent 100,
\* snack_bonus 1.5, fill_score 10, and category full with final_score >= 9.5
C7_RedImageIsFull ==
    (result # None /\ AllOf(Imread(disk)[1], "red")) =>
        /\ result[1].fill_percent = QInt(100)
        /\ result[1].snack_percent = QInt(100)
        /\ frame[1].snack_bonus = Q(3, 2)
        /\ result[1].fill_score = QInt(10)
        /\ result[1].category = "full"
        /\ QLe(Q(95, 10), result[1].final_score)

\* C7 amended: an all-red image gives fill_percent 100, snack_percent 100,
\* snack_bonus 1.5, fill_score 10; its three bands are evenly filled, so the
\* vertical score is 5 (4 when the height is 1 modulo 3, the bottom band being a
\* row taller), final_score is 9.0 (8.8) and the category nearly_full
C7_RedImageIsNearlyFull ==
    (result # None /\ AllOf(Imread(disk)[1], "red")) =>
        LET tall_bottom == Imread(disk)[1].height % 3 = 1
        IN  /\ result[1].fill_percent = QInt(100)
            /\ result[1].snack_percent = QInt(100)
            /\ frame[1].snack_bonus = Q(3, 2)
            /\ result[1].fill_score = QInt(10)
            /\ result[1].vertical_score = (IF tall_bottom THEN 4 ELSE 5)
            /\ result[1].final_score = (IF tall_bottom THEN Q(88, 10) ELSE QInt(9))
            /\ result[1].category = "nearly_full"

\* a record was returned for an all-red image whose product mask is the whole image
C7_Witness ==
    /\ result # None
    /\ AllOf(Imread(disk)[1], "red")
    /\ frame[1].filled_pixels = frame[1].total_pixels
    /\ Imread(disk)[1].height % 3 = 1

\* C8: when the image is missing or cannot be decoded, no signal is computed and
\* no record returned, nothing is printed on stdout, and main ends with an
\* "error" object on stderr and exit status 1; for a missing image
\* analyze_fill_level is not even called
C8_InputErrorIsTotal ==
    Imread(disk) = None =>
        /\ frame = None /\ result = None /\ written = {} /\ stdout = None
        /\ pc = "exit" =>
               /\ stderr # None /\ "error" \in DOMAIN stderr[1]
               /\ exit_code = Some(1)
        /\ ~disk.exists => (pc \in {"main", "exit"} /\ exc = None)
        /\ disk.exists /\ pc = "exit" => exc # None /\ exc[1].type = "ValueError"

\* main has ended on an image file that cannot be decoded
C8_Witness ==
    /\ disk.exists /\ disk.image = None
    /\ pc = "exit"
    /\ exit_code = Some(1)
    /\ stderr # None

\* the fields of a complete record
ResultFields ==
    {"fill_percent", "snack_percent", "fill_score", "vertical_score", "fill_line_score",
     "combined_score", "final_score", "category", "has_fill_line", "fill_line_position",
     "detail"}

\* C9: for every decoded image analyze_fill_level returns a complete record and
\* never an error
C9_DecodedImageGivesRecord ==
    (Imread(disk) # None /\ pc \in {"returned", "raised", "exit"}) =>
        /\ exc = None
        /\ result # None
        /\ DOMAIN result[1] = ResultFields

\* C10: with debug enabled, a debug image that could not be written changes
\* nothing: analyze_fill_level returns the record it returns without debug, and
\* main prints it and exits 0
C10_DebugWriteFailureIsIgnored ==
    (/\ pc = "exit"
     /\ Imread(disk) # None
     /\ args.debug
     /\ written # {DebugPaths(args.image)[k] : k \in 1..3}) =>
        /\ result = Some(ResultRecord(Locals(Imread(disk)[1], hough)))
        /\ stdout = result
        /\ exit_code = Some(0)

\* C11: the vertical score is given by the first rule that matches, in the order
\* total = 0 -> 0, top > 0.45 total -> 9, mid > max(top, bottom) -> 7,
\* bottom > mid -> 4, else 5; so it is one of 0, 4, 5, 7, 9, product pixels in
\* the top band only score 9 and product pixels in the bottom band only score 4
C11_FirstMatchingRule ==
    (fout # None /\ pc = "done") =>
        LET t == fin.top
            m == fin.mid
            b == fin.bottom
            total == t + m + b
            score == fout[1]
        IN  /\ total = 0 => score = 0
            /\ (total > 0 /\ 100 * t > 45 * total) => score = 9
            /\ (total > 0 /\ 100 * t <= 45 * total /\ m > t /\ m > b) => score = 7
            /\ (total > 0 /\ 100 * t <= 45 * total /\ ~(m > t /\ m > b) /\ b > m) => score = 4
            /\ (total > 0 /\ 100 * t <= 45 * total /\ ~(m > t /\ m > b) /\ b <= m) => score = 5
            /\ score \in {0, 4, 5, 7, 9}
            /\ (t > 0 /\ m = 0 /\ b = 0) => score = 9
            /\ (t = 0 /\ m = 0 /\ b > 0) => score = 4

\* band counts that match the top rule and the middle rule at once score 9
C11_Witness ==
    /\ pc = "done" /\ fout = Some(9)
    /\ fin.mid > fin.top /\ fin.mid > fin.bottom
    /\ 100 * fin.top > 45 * (fin.top + fin.mid + fin.bottom)

\* C12: the vertical score is 0 exactly when the product mask holds no product
\* pixel; with a product pixel in any row it is one of 4, 5, 7, 9
C12_ZeroIffNoProduct ==
    frame # None =>
        LET L == frame[1]
        IN  /\ (L.filled_pixels = 0) <=> (L.product_mask = {})
            /\ (L.vertical_score = 0) <=> (L.product_mask = {})
            /\ L.product_mask # {} => L.vertical_score \in {4, 5, 7, 9}

\* the only product pixels lie in the last rows of the image, below the first
\* two bands
C12_Witness ==
    /\ frame # None
    /\ frame[1].product_mask # {}
    /\ frame[1].top_third_pixels = 0 /\ frame[1].middle_third_pixels = 0
    /\ \A i \in frame[1].product_mask : i[2] = frame[1].height - 1
    /\ frame[1].vertical_score = 4

\* C13: the snack bonus min(1.5, snack_percent / 20) does not fall as the snack
\* percentage rises over [0, 100], is 0 at 0, is exactly 1.5 from 30 percent on
\* and is below 1.5 under 30 percent
C13_SnackBonusSaturates ==
    (fout # None /\ pc = "done") =>
        LET bonus == fout[1][1]
        IN  /\ bonus = QMin(Q(3, 2), QDiv(fin.a, QInt(20)))
            /\ QLe(fin.a, fin.b) => QLe(bonus, fout[1][2])
            /\ fin.a = QInt(0) => bonus = QInt(0)
            /\ QLe(QInt(30), fin.a) => bonus = Q(3, 2)
            /\ QLt(fin.a, QInt(30)) => QLt(bonus, Q(3, 2))

\* the bonus just under 30 percent is below the cap, and at 30 percent it is the cap
C13_Witness ==
    /\ pc = "done"
    /\ fin.a = Q(2999, 100) /\ QLt(fout[1][1], Q(3, 2))
    /\ fin.b = QInt(30) /\ fout[1][2] = Q(3, 2)

\* C14: for a line at row y of an image of height H, 0 <= y <= H - 1, the
\* fill-line score is 10 (1 - y / H): in (0, 10], so the cap changes nothing,
\* strictly decreasing in y, 9.5 at y = 0.05 H and 0.5 at y = 0.95 H
C14_FillLineScoreInverted ==
    (fout # None /\ pc = "done") =>
        LET score == fout[1][1]
        IN  /\ score = Q(10 * (fin.height - fin.y), fin.height)
            /\ QLt(QInt(0), score) /\ QLe(score, QInt(10))
            /\ fin.y < fin.y2 => QLt(fout[1][2], score)
            /\ 20 * fin.y = fin.height => score = Q(95, 10)
            /\ 20 * fin.y = 19 * fin.height => score = Q(5, 10)

\* a line at 0.05 H scores 9.5 and a line at 0.95 H scores 0.5
C14_Witness ==
    /\ pc = "done"
    /\ 20 * fin.y = fin.height /\ fout[1][1] = Q(95, 10)
    /\ 20 * fin.y2 = 19 * fin.height /\ fout[1][2] = Q(5, 10)

\* C15: whenever a horizontal line is detected at a row y, 0 <= y <= H - 1, row 0
\* included, the record reports has_fill_line true, fill_line_position y and
\* fill_line_score 10 (1 - y / H) rounded to 2 decimals; and in every record
\* has_fill_line is true exactly when fill_line_position is not null
C15_DetectedLineIsReported ==
    result # None =>
        LET L == frame[1]
        IN  /\ L.fill_line_y # None =>
                   /\ result[1].has_fill_line = TRUE
                   /\ result[1].fill_line_position = L.fill_line_y
                   /\ result[1].fill_line_score = Round2(Q(10 * (L.height - L.fill_line_y[1]), L.height))
            /\ result[1].has_fill_line <=> (result[1].fill_line_position # None)

\* what a call ends with: its record, or its exception
Outcome(p) == [result |-> result[p], exc |-> exc[p]]

\* what call p ends with when it runs alone on the files as they were at first
Alone(p) ==
    LET file == fin.files[args[p].image]
    IN  IF file = None
        THEN [result |-> None, exc |-> Some([type |-> "ValueError", message |-> "Cannot read image"])]
        ELSE [result |-> Some(ResultRecord(Locals(file[1], hough[file[1]]))), exc |-> None]

\* C16: two calls of analyze_fill_level, one after the other, on the same image
\* with the same debug flag end alike: the first call leaves the image as it
\* was, the second returns the record the first returned, and the record is the
\* one computed from the content of the image
C16_SecondCallSameResult ==
    (args[1] = args[2] /\ Finished(1)) =>
        /\ disk.files[args[1].image] = fin.files[args[1].image]
        /\ Outcome(1) = Alone(1)
        /\ Finished(2) => Outcome(2) = Outcome(1)

\* both calls have returned a record for the same image, with debug, and the
\* debug images of the first were on disk when the second began
C16_Witness ==
    /\ args[1] = args[2] /\ args[1].debug /\ disk.dir_writable
    /\ Finished(1) /\ Finished(2)
    /\ result[1] # None /\ result[2] = result[1]
    /\ written = {DebugPaths(args[1].image)[k] : k \in 1..3}

\* C17 as claimed: in every interleaving of two concurrent calls, on the same
\* image or on different ones, with or without debug, each call ends with the
\* record it returns when run alone
C17_ConcurrentCallsIndependent ==
    \A p \in Calls : Finished(p) => Outcome(p) = Alone(p)

\* the names the debug images add to the name of the analysed image
DebugSuffixes == {"_product_mask", "_edges", "_snack_mask"}

\* no call analyses a file that another call, run with debug, writes as a debug image
NoCallReadsDebugOutput ==
    \A p, q \in Calls :
        (p # q /\ args[q].debug) =>
            args[p].image.stem \notin {args[q].image.stem \o <<x>> : x \in DebugSuffixes}

\* C17 amended: in every interleaving of two concurrent calls, each call ends
\* with the record it returns when run alone, provided no call analyses a file
\* that another call, run with debug, writes as one of its debug images; the
\* files are the only state the calls share
C17_IndependentUnlessDebugOutputRead ==
    NoCallReadsDebugOutput => \A p \in Calls : Finished(p) => Outcome(p) = Alone(p)

\* call 1 has returned the record it returns alone while call 2, on the same
\* image and with debug as well, is in the middle of writing a debug image
C17_Witness ==
    /\ args[1].image = args[2].image /\ args[1].debug /\ args[2].debug
    /\ disk.dir_writable
    /\ pc[1].at = "returned" /\ result[1] = Alone(1).result
    /\ pc[2].at = "open" /\ pc[2].done = 1

\* C18: in every record the reported final_score lies in the closed interval
\* validate_result gives the reported category, so the validator never warns
\* that the score does not match the category
C18_ScoreWithinCategoryInterval ==
    result # None =>
        /\ result[1].category \in DOMAIN category_map
        /\ ScoreMatchesCategory(result[1])

\* a record whose score was rounded up onto a boundary: the category is the one
\* below the boundary, and the closed interval still holds the reported score
C18_Witness ==
    /\ result # None
    /\ result[1].category = "good"
    /\ result[1].final_score = QInt(7)
    /\ QLt(frame[1].final_score, QInt(7))

\* C19: for every image 0 <= snack_pixels <= filled_pixels <= total_pixels = H W,
\* hence 0 <= snack_percent <= fill_percent <= 100: only pixels of the final
\* product mask count as snack pixels
C19_SnackWithinProduct ==
    frame # None =>
        LET L == frame[1]
        IN  /\ L.total_pixels = L.height * L.width
            /\ 0 <= L.snack_pixels /\ L.snack_pixels <= L.filled_pixels
            /\ L.filled_pixels <= L.total_pixels
            /\ QLe(QInt(0), L.snack_percent) /\ QLe(L.snack_percent, L.fill_percent)
            /\ QLe(L.fill_percent, QInt(100))
            /\ \A i \in L.snack_mask : \A r \in {i[1], i[2]} : Covered(L.product_mask, r)
            /\ result # None =>
                   /\ QLe(QInt(0), result[1].snack_percent)
                   /\ QLe(result[1].snack_percent, result[1].fill_percent)
                   /\ QLe(result[1].fill_percent, QInt(100))

\* the image has colourful rows that the opening removed from the product mask:
\* they are not counted as snack pixels
C19_Witness ==
    /\ result # None
    /\ InRangeMask(Imread(disk)[1], lower_color, upper_color) # {}
    /\ frame[1].snack_pixels = 0
    /\ frame[1].filled_pixels = 0

\* C20: every place that derives a category from a score uses one ladder: for
\* every score the ladder written out in simple_test.test_categories gives the
\* label categorize_score gives, and the interval table of validate_result has
\* the same boundaries 1, 3, 5, 7, 9.5: the interval of the label holds the score
\* and the boundaries of the table are the scores where the label changes
C20_OneLadder ==
    (fout # None /\ pc = "done") =>
        /\ fout[1].test = fout[1].code
        /\ fout[1].code \in DOMAIN category_map
        /\ (QLe(QInt(0), fin.a) /\ QLe(fin.a, QInt(10))) =>
               /\ QLe(category_map[fout[1].code][1], fin.a)
               /\ QLe(fin.a, category_map[fout[1].code][2])
        /\ (categorize_score(fin.a) # categorize_score(QSub(fin.a, Q(1, 100)))) <=>
               (\E c \in DOMAIN category_map : category_map[c][1] = fin.a /\ fin.a # QInt(0))
        /\ {category_map[c][k] : c \in DOMAIN category_map, k \in 1..2} =
               {QInt(0), QInt(1), QInt(3), QInt(5), QInt(7), Q(95, 10), QInt(10)}

\* the boundary 9.5 is full on both ladders and opens the interval of full
C20_Witness ==
    /\ pc = "done"
    /\ fin.a = Q(95, 10)
    /\ fout[1].code = "full" /\ fout[1].test = "full"
    /\ category_map["full"][1] = fin.a

\* the segments of a list, by position, whose end points differ by less than 20 rows
Qualifying(lines) == {k \in 1..Len(lines) : Abs(lines[k][4] - lines[k][2]) < 20}

\* the midpoint row of a segment
Midpoint(seg) == (seg[2] + seg[4]) \div 2

\* C21: the fill-line row is computed only from the segments with
\* |y2 - y1| < 20: it is a median of their midpoint rows (y1 + y2) div 2 (at
\* least half of them lie at or above it and at least half at or below; the
\* mean of the two middle ones, cut to a whole row, when their number is even),
\* it lies between the smallest and the largest of them and within [0, H - 1],
\* the other segments never change it, and it is null exactly when no segment
\* qualifies
C21_MedianOfHorizontalMidpoints ==
    (fout # None /\ pc = "done") =>
        LET y == fout[1]
            lines == IF fin.lines = None THEN <<>> ELSE fin.lines[1]
            K == Qualifying(lines)
            kept == SelectSeq(lines, LAMBDA seg : Abs(seg[4] - seg[2]) < 20)
        IN  /\ (y = None) <=> (K = {})
            /\ y # None =>
                   /\ 2 * Cardinality({k \in K : Midpoint(lines[k]) <= y[1]}) >= Cardinality(K)
                   /\ 2 * Cardinality({k \in K : Midpoint(lines[k]) >= y[1]}) >= Cardinality(K)
                   /\ y[1] = MedianInt([k \in 1..Len(kept) |-> Midpoint(kept[k])])
                   /\ \E k \in K : Midpoint(lines[k]) <= y[1]
                   /\ \E k \in K : y[1] <= Midpoint(lines[k])
                   /\ 0 <= y[1] /\ y[1] <= fin.height - 1
            /\ fin.lines # None /\ kept # <<>> => y = FillLineY(Some(kept))

\* a list of two level segments and a steep one that lies below both: the row
\* is the mean of the two level midpoints cut to a whole row
C21_Witness ==
    /\ pc = "done"
    /\ fin.lines = Some(<<<<0, 0, 119, 0>>, <<0, 0, 119, 29>>, <<0, 9, 119, 9>>>>)
    /\ fout = Some(Some(4))

\* the product mask covers the whole image
FullMask(L) == L.filled_pixels = L.total_pixels

\* C22 as claimed: for every image height the three bands hold the same number
\* of rows, so a uniformly filled product mask has equal pixel counts in the
\* top, the middle and the bottom band
C22_BandsAreEqual ==
    (frame # None /\ FullMask(frame[1])) =>
        /\ frame[1].top_third_pixels = frame[1].middle_third_pixels
        /\ frame[1].middle_third_pixels = frame[1].bottom_third_pixels

\* C22 amended: the bands hold H div 3, 2H div 3 - H div 3 and H - 2H div 3
\* rows; they are equal exactly when H is a multiple of 3, else they differ by
\* one row: the bottom band is a row taller when H mod 3 = 1, the top band a
\* row shorter when H mod 3 = 2; a uniformly filled mask has these counts
C22_BandsDifferByAtMostOneRow ==
    (frame # None /\ FullMask(frame[1])) =>
        LET L == frame[1]
            H == L.height
            rows_top == L.top_third_pixels \div L.width
            rows_mid == L.middle_third_pixels \div L.width
            rows_bottom == L.bottom_third_pixels \div L.width
        IN  /\ L.top_third_pixels = (H \div 3) * L.width
            /\ L.middle_third_pixels = ((2 * H) \div 3 - H \div 3) * L.width
            /\ L.bottom_third_pixels = (H - (2 * H) \div 3) * L.width
            /\ (rows_top = rows_mid /\ rows_mid = rows_bottom) <=> (H % 3 = 0)
            /\ H % 3 = 1 => (rows_top = rows_mid /\ rows_bottom = rows_mid + 1)
            /\ H % 3 = 2 => (rows_top + 1 = rows_mid /\ rows_bottom = rows_mid)

\* a uniformly filled mask on an image whose height is 2 modulo 3: the top band
\* holds fewer pixels than the other two
C22_Witness ==
    /\ frame # None /\ FullMask(frame[1])
    /\ frame[1].height % 3 = 2
    /\ frame[1].top_third_pixels < frame[1].middle_third_pixels
    /\ frame[1].middle_third_pixels = frame[1].bottom_third_pixels

\* C23 as claimed: there are band counts with the product in the top and the
\* bottom band and little in the middle (mid < top, mid < bottom, total > 0) for
\* which the rules give the default vertical score 5
C23_TopAndBottomFallToDefault ==
    \E t, m, b \in 0..MaxBand :
        /\ m < t /\ m < b /\ t + m + b > 0
        /\ VerticalScore(t, m, b) = 5
        /\ pc \in {"fn", "done"}

\* C23 amended: band counts with mid < top and mid < bottom never score the
\* default 5: they score 9 when the top band holds more than 45 percent and
\* else 4, by the rule bottom > mid; the default 5 is given exactly to the
\* counts with total > 0, top <= 0.45 total, bottom <= mid, and mid <= top or
\* mid = bottom
C23_TopAndBottomScoreNineOrFour ==
    (fout # None /\ pc = "done") =>
        LET t == fin.top
            m == fin.mid
            b == fin.bottom
            total == t + m + b
        IN  /\ (m < t /\ m < b) =>
                   fout[1] = (IF 100 * t > 45 * total THEN 9 ELSE 4)
            /\ (fout[1] = 5) <=>
                   (total > 0 /\ 100 * t <= 45 * total /\ b <= m /\ (m <= t \/ m = b))

\* product in the top and the bottom band and little in the middle, the top band
\* under 45 percent: the score is 4
C23_Witness ==
    /\ pc = "done"
    /\ fin.top = 5 /\ fin.mid = 1 /\ fin.bottom = 6
    /\ fout = Some(4)

\* the weighted sum recomputed from the component values a record reports
AuditedScore(rec) ==
    QAdd(QAdd(QMul(Q(50, 100), rec.fill_score), QMul(Q(20, 100), QInt(rec.vertical_score))),
         QAdd(QMul(Q(15, 100), rec.fill_line_score),
              QMul(Q(15, 10), QMin(Q(15, 10), QDiv(rec.snack_percent, QInt(20))))))

\* C24: in every record the reported combined_score equals 0.50 fill_score +
\* 0.20 vertical_score + 0.15 fill_line_score + 1.5 min(1.5, snack_percent / 20)
\* computed from the values reported in the same record, up to the rounding of
\* the fields (a difference below 0.05), also without a fill line and with the
\* line at row 0
C24_RecordIsSelfConsistent ==
    result # None =>
        LET diff == QSub(result[1].combined_score, AuditedScore(result[1]))
        IN  QLt(Q(-5, 100), diff) /\ QLt(diff, Q(5, 100))

\* the sum of the three band percentages a record reports
BandPercentSum(rec) ==
    LET v == rec.detail.vertical_distribution
    IN  QAdd(v.top_third_percent, QAdd(v.middle_third_percent, v.bottom_third_percent))

\* C25: for every image height the three band slices partition the rows, so the
\* product pixels of the three bands add up to filled_pixels; the three band
\* percentages of the record are all 0 when there is no product pixel and else
\* add up to 100 up to their rounding
C25_BandsPartitionRows ==
    frame # None =>
        LET L == frame[1]
        IN  /\ L.top_third_pixels + L.middle_third_pixels + L.bottom_third_pixels = L.filled_pixels
            /\ L.top_third_pixels = CountNonZero(L.product_mask, 0, L.height \div 3, L.width)
            /\ L.bottom_third_pixels =
                   CountNonZero(L.product_mask, (2 * L.height) \div 3, L.height, L.width)
            /\ result # None =>
                   LET v == result[1].detail.vertical_distribution
                       diff == QSub(BandPercentSum(result[1]), QInt(100))
                   IN  IF L.filled_pixels = 0
                       THEN /\ v.top_third_percent = QInt(0)
                            /\ v.middle_third_percent = QInt(0)
                            /\ v.bottom_third_percent = QInt(0)
                       ELSE QLe(Q(-2, 100), diff) /\ QLe(diff, Q(2, 100))

\* a record for a mask that reaches into all three bands of an image whose
\* height is no multiple of 3, the rounded percentages not adding up to 100
C25_Witness ==
    /\ result # None
    /\ frame[1].height % 3 # 0
    /\ frame[1].top_third_pixels > 0 /\ frame[1].middle_third_pixels > 0
    /\ frame[1].bottom_third_pixels > 0
    /\ frame[1].filled_pixels < frame[1].total_pixels
    /\ BandPercentSum(result[1]) # QInt(100)

\* C26: the fused final_score does not fall when one of its four inputs
\* (fill_percent, vertical_score, fill-line score, snack_percent) is raised and
\* the other three stay, and the category does not move down the ladder
C26_FusionIsMonotone ==
    (fout # None /\ pc = "done") =>
        /\ RaisesOne(fin.a, fin.b)
        /\ QLe(fout[1][1].final_score, fout[1][2].final_score)
        /\ Rank(fout[1][1].category) <= Rank(fout[1][2].category)

\* raising the snack percentage alone lifts the score and the category
C26_Witness ==
    /\ pc = "done"
    /\ QLt(fin.a.snack_percent, fin.b.snack_percent)
    /\ QLt(fout[1][1].final_score, fout[1][2].final_score)
    /\ Rank(fout[1][1].category) < Rank(fout[1][2].category)

\* C27: a top-loaded image is never full: whenever the vertical score is 9,
\* fill_percent is below 74.1, final_score below 9.26 and the category is not
\* full, whatever the size of the image, the fill line and the snack percentage
C27_TopLoadedIsNeverFull ==
    (frame # None /\ frame[1].vertical_score = 9) =>
        /\ 100 * frame[1].top_third_pixels > 45 * frame[1].filled_pixels
        /\ QLt(frame[1].fill_percent, Q(741, 10))
        /\ QLt(frame[1].final_score, Q(926, 100))
        /\ categorize_score(frame[1].final_score) # "full"
        /\ result # None =>
               /\ QLt(result[1].fill_percent, Q(741, 10))
               /\ QLt(result[1].final_score, Q(926, 100))
               /\ result[1].category # "full"

\* a record for a top-loaded image filled to two thirds with colourful product
\* and with a fill line: nearly full, not full
C27_Witness ==
    /\ result # None
    /\ result[1].vertical_score = 9
    /\ QLt(QInt(60), result[1].fill_percent)
    /\ frame[1].snack_bonus = Q(3, 2)
    /\ result[1].has_fill_line
    /\ QLe(QInt(8), result[1].final_score)
    /\ result[1].category = "nearly_full"

\* the three debug files of an image: the stem of the image with a suffix added,
\* in the directory and with the extension of the image
DebugFilesOf(image_path) ==
    {[stem |-> image_path.stem \o <<x>>, suffix |-> image_path.suffix] : x \in DebugSuffixes}

\* C28: the debug flag has no effect on the record and does not touch the input:
\* when the debug writes succeed, the call with debug returns the record the
\* call without debug returns, exactly three files are written, named by the
\* stem of the input plus _product_mask, _edges and _snack_mask, none of them is
\* the input, and the input file is left as it was
C28_DebugLeavesRecordAndInput ==
    /\ (Finished(1) /\ pc[2].at = "call") =>
           /\ disk.files[args[1].image] = fin.files[args[1].image]
           /\ (args[1].debug /\ disk.dir_writable /\ result[1] # None) =>
                  /\ written = DebugFilesOf(args[1].image)
                  /\ Cardinality(written) = 3
                  /\ args[1].image \notin written
           /\ ~args[1].debug => written = {}
    /\ (Finished(1) /\ Finished(2) /\ args[1].image = args[2].image
           /\ args[1].debug # args[2].debug) =>
           Outcome(1) = Outcome(2)

\* the same image was analysed with debug, the three files being written, and
\* then without: the two records are the same
C28_Witness ==
    /\ args[1].image = args[2].image /\ args[1].debug /\ ~args[2].debug
    /\ disk.dir_writable
    /\ Finished(1) /\ Finished(2)
    /\ Cardinality(written) = 3
    /\ result[1] # None /\ result[2] = result[1]

\* the pixel classification of an image: the runs of product rows
RawProduct(img) ==
    LET white_mask == InRangeMask(img, lower_white, upper_white)
        inverted == BitwiseNot(white_mask, img.height)
    IN  Normalize(inverted)

\* the runs of background rows
RawBackground(img) ==
    LET white_mask == InRangeMask(img, lower_white, upper_white)
    IN  Normalize(white_mask)

RunLength(i) == i[2] - i[1] + 1

\* a product speck in the runs of product rows P of an image of height rows: a
\* run thinner than the kernel, background above and below it, and no other
\* product within 5 rows
Speck(P, height, i) ==
    /\ i \in P
    /\ RunLength(i) < KernelSize
    /\ i[1] >= 1 /\ i[2] <= height - 2
    /\ \A j \in P \ {i} : j[2] < i[1] - KernelSize \/ i[2] + KernelSize < j[1]

\* a background hole in the runs of background rows B: a run thinner than the
\* kernel with product above and below it
Hole(B, height, j) ==
    /\ j \in B
    /\ RunLength(j) < KernelSize
    /\ j[1] >= 1 /\ j[2] <= height - 2

Absent(M, i) == \A r \in i[1]..i[2] : ~Covered(M, r)
Filled(M, j) == \A r \in j[1]..j[2] : Covered(M, r)

\* the classification: background exactly when saturation <= 30 and value >= 200
ClassifiedByWhiteness ==
    \A h \in {0, 90, 179}, sat \in {0, 30, 31, 255}, val \in {0, 199, 200, 255} :
        InRange(<<h, sat, val>>, lower_white, upper_white) <=> (sat <= 30 /\ val >= 200)

BlockRows(P, j) ==
    LET above == CHOOSE i \in P : i[2] = j[1] - 1
        below == CHOOSE i \in P : i[1] = j[2] + 1
    IN  RunLength(above) + RunLength(j) + RunLength(below)

OwnBand(drawers, k, h) == <<drawers[k].bbox[2], drawers[k].bbox[2] + (h \div 4)>>

\* C30: every consumer of a drawer region takes the drawer to cover the rows
\* y_start to y_start + h div 4: the rectangle of detect_bottles_in_drawer, the
\* region cut out by detect_cookies_by_fill_lines and the fill line of
\* draw_fill_lines stay in that band, drawers of different rows do not overlap
\* vertically, and a bottle is attributed to a drawer only if its box
\* intersects the band of that drawer
C30_DrawerCoversOwnBand ==
    (fout # None /\ pc = "done") =>
        LET o == fout[1]
            h == fin.h
        IN  \A k \in 1..6 :
                LET band == OwnBand(o.drawers, k, h)
                IN  /\ <<o.rect[k].y1, o.rect[k].y2>> = band
                    /\ o.drawer_roi[k] = <<Min(band[1], h), Min(band[2], h)>>
                    /\ band[1] <= o.line_y[k] /\ o.line_y[k] <= band[2]
                    /\ \A j \in 1..6 :
                           o.rect[j].y1 # o.rect[k].y1 =>
                               (o.rect[j].y2 <= o.rect[k].y1 \/ o.rect[k].y2 <= o.rect[j].y1)
                    /\ \A n \in 1..Len(o.bottles_in_drawer[k]) :
                           LET det == o.bottles_in_drawer[k][n]
                           IN  det.bbox[2] < band[2] /\ det.bbox[2] + det.bbox[4] > band[1]

===========================================================================
